---------------------------- MODULE Spec2Model ----------------------------
(***************************************************************************)
(* A model of smartie's command/response protocol layer:                   *)
(*   - smartie/scsi/windows.py   WindowsSCSIDevice (__enter__, __exit__,     *)
(*                               issue_command)                            *)
(*   - smartie/nvme/__init__.py  NVMEDevice (parse_status_filed, identify,   *)
(*                               serial, model, temperature, read_log_page,*)
(*                               smart)                                    *)
(*   - smartie/nvme/structures.py  the ctypes structures the above use       *)
(*                                                                         *)
(* Two specifications share the module: SpecSCSI drives one                *)
(* WindowsSCSIDevice instance, SpecNVMe drives one NVMEDevice instance.    *)
(* Every operation is synchronous, so an action is one whole call.         *)
(*                                                                         *)
(* Integers wider than 31 bits (nsid = 0xFFFFFFFF, 64-bit addresses) are   *)
(* kept as little-endian sequences of 16-bit limbs; a ctypes field of w    *)
(* bits keeps the low w bits of what is assigned to it.                    *)
(* ctypes.Structure uses the host's byte and bit-field order; the model is *)
(* of a little-endian host (x86, ARM), where bit fields fill a byte from   *)
(* its least significant bit.                                              *)
(***************************************************************************)
EXTENDS Integers, Sequences, FiniteSets, TLC

VARIABLES
    \* ---- WindowsSCSIDevice ----
    fd,          \* self.fd: None, or <<h>> for the value h CreateFileW returned
    nextHandle,  \* the OS: the next fresh handle value CreateFileW hands out
    released,    \* the OS: per handle, how many times CloseHandle was called on it
    lastOp,      \* the last call made on the device
    lastErr,     \* how it ended: "none", "state" (IOError), "platform" (WinError)
    lastErrCode, \* the OS last-error code a WinError carries (<<>> if none)
    osCalls,     \* the kernel32 calls the last call made, in order
    closeArg,    \* the argument of CloseHandle in the last call (None if not called)
    cmdArg,      \* the command block the last call was given (<<>> if none)
    osOut,       \* what the OS answered the last call's DeviceIoControl (<<>> if none)
    sptd,        \* the pass-through header the last call submitted (<<>> if none)
    senseParsed, \* what the last call handed to parse_sense (<<>> if nothing)
    ret,         \* what the last call returned (<<>> if it raised or returns nothing)
    \* ---- NVMEDevice ----
    nOp,         \* the last call made on the NVMe device
    nIn,         \* its inputs: arguments and the bytes the device filled in
    nCmds,       \* the admin commands it passed to issue_admin_command, in order
    nWire,       \* the memory image of the last of them, as handed to the OS
    nRet         \* its outcome: [tag |-> "ok" | "err", val |-> ...]

scsiVars == <<fd, nextHandle, released, lastOp, lastErr, lastErrCode, osCalls,
              closeArg, cmdArg, osOut, sptd, senseParsed, ret>>
nvmeVars == <<nOp, nIn, nCmds, nWire, nRet>>
vars == <<fd, nextHandle, released, lastOp, lastErr, lastErrCode, osCalls,
          closeArg, cmdArg, osOut, sptd, senseParsed, ret,
          nOp, nIn, nCmds, nWire, nRet>>

----------------------------------------------------------------------------
(* Bounds of the model *)

\* successful opens per behaviour (each takes a fresh handle from the OS)
MaxOpens == 2
\* longest command block handed to issue_command (above the 16-byte CDB)
MaxCmdLen == 18
\* longest run of leading padding bytes in an identify text field
MaxLead == 2
\* longest run of arbitrary bytes in an identify text field
MaxCore == 3

----------------------------------------------------------------------------
(* Values *)

None == <<>>
Some(v) == <<v>>

\* CreateFileW's failure value, the one __enter__ tests for
INVALID_HANDLE_VALUE == -1

\* the fixed CDB size of the Windows pass-through header
CDB_SIZE == 16

\* a sequence of n copies of b
Fill(b, n) == [i \in 1..n |-> b]

\* Ljust padding on the left instead (bytes.rjust)
Rjust(s, width, fillbyte) ==
    IF Len(s) >= width THEN s ELSE Fill(fillbyte, width - Len(s)) \o s

\* bytes.ljust(width, fillbyte): pads on the right; never shortens
Ljust(s, width, fillbyte) ==
    IF Len(s) >= width THEN s ELSE s \o Fill(fillbyte, width - Len(s))

\* (c_ubyte * n).from_buffer_copy(buf): ValueError when buf is smaller than
\* the array; a larger buf is accepted and its first n bytes are copied
FromBufferCopy(n, buf) ==
    IF Len(buf) < n THEN [ok |-> FALSE, val |-> <<>>]
    ELSE [ok |-> TRUE, val |-> SubSeq(buf, 1, n)]


----------------------------------------------------------------------------
(* WindowsSCSIDevice: inputs *)

\* Direction.TO / Direction.FROM and the data_in flag each maps to
DataIn(direction) == IF direction = "TO" THEN 0 ELSE 1

\* command blocks: every length from 0 to MaxCmdLen, two fillings, and
\* the 6-byte INQUIRY command
CommandByte(p, i) == IF p = 1 THEN (17 * i) % 256 ELSE 255
CommandBlocks ==
    { [i \in 1..n |-> CommandByte(p, i)] : n \in 0..MaxCmdLen, p \in 1..2 }
        \cup { <<18, 0, 0, 0, 96, 0>> }

\* requests: the direction, ctypes.sizeof(data) of the caller's data buffer
\* and the timeout argument (3000 is its default)
Requests == { <<"FROM", 512, 3000>>, <<"TO", 0, 500>> }
\* values ctypes.get_last_error() can give after a failed kernel32 call
OsErrors == {5, 6}
\* leading bytes of the header's sense region after DeviceIoControl returns
\* (all zero when the driver wrote nothing)
SenseSamples == { <<0, 0, 0, 0>>, <<112, 0, 5, 0>> }

\* SCSIDevice.parse_sense(sense): parses the sense bytes; the caller
\* discards what it returns
ParseSense(blob) == [arg |-> blob, raised |-> FALSE]

----------------------------------------------------------------------------
(* WindowsSCSIDevice: operations *)

InitSCSI ==
    /\ fd = None
    /\ nextHandle = 1
    /\ released = [h \in {} |-> 0]
    /\ lastOp = "init"
    /\ lastErr = "none"
    /\ lastErrCode = None
    /\ osCalls = <<>>
    /\ closeArg = None
    /\ cmdArg = None
    /\ osOut = None
    /\ sptd = None
    /\ senseParsed = None
    /\ ret = None

\* __enter__: osOk says whether CreateFileW succeeds, err is the last-error
\* code when it does not
Enter(osOk, err) ==
    /\ lastOp' = "open"
    /\ closeArg' = None
    /\ cmdArg' = None
    /\ osOut' = None
    /\ sptd' = None
    /\ senseParsed' = None
    /\ ret' = None
    /\ UNCHANGED released
    /\ IF fd # None
       THEN \* raise IOError('Device is already open.')
            /\ lastErr' = "state"
            /\ lastErrCode' = None
            /\ osCalls' = <<>>
            /\ UNCHANGED <<fd, nextHandle>>
       ELSE /\ osCalls' = <<"CreateFileW">>
            /\ IF osOk
               THEN /\ nextHandle <= MaxOpens
                    /\ fd' = Some(nextHandle)
                    /\ nextHandle' = nextHandle + 1
                    /\ lastErr' = "none"
                    /\ lastErrCode' = None
               ELSE \* self.fd is assigned before it is tested against -1
                    /\ fd' = Some(INVALID_HANDLE_VALUE)
                    /\ UNCHANGED nextHandle
                    /\ lastErr' = "platform"
                    /\ lastErrCode' = Some(err)

\* Exit without its `self.fd = None`
ExitKeepsHandle ==
    /\ lastOp' = "close"
    /\ lastErr' = "none"
    /\ lastErrCode' = None
    /\ cmdArg' = None
    /\ osOut' = None
    /\ sptd' = None
    /\ senseParsed' = None
    /\ ret' = Some(FALSE)
    /\ UNCHANGED <<nextHandle, fd>>
    /\ IF fd # None
       THEN /\ osCalls' = <<"CloseHandle">>
            /\ closeArg' = fd
            /\ released' =
                 IF fd[1] = INVALID_HANDLE_VALUE THEN released
                 ELSE [h \in DOMAIN released \cup {fd[1]} |->
                         IF h = fd[1]
                         THEN (IF h \in DOMAIN released THEN released[h] ELSE 0) + 1
                         ELSE released[h]]
       ELSE /\ osCalls' = <<>>
            /\ closeArg' = None
            /\ UNCHANGED released

\* __exit__
Exit ==
    /\ lastOp' = "close"
    /\ lastErr' = "none"
    /\ lastErrCode' = None
    /\ cmdArg' = None
    /\ osOut' = None
    /\ sptd' = None
    /\ senseParsed' = None
    /\ ret' = Some(FALSE)
    /\ UNCHANGED nextHandle
    /\ IF fd # None
       THEN /\ osCalls' = <<"CloseHandle">>
            /\ closeArg' = fd
            /\ released' =
                 IF fd[1] = INVALID_HANDLE_VALUE THEN released
                 ELSE [h \in DOMAIN released \cup {fd[1]} |->
                         IF h = fd[1]
                         THEN (IF h \in DOMAIN released THEN released[h] ELSE 0) + 1
                         ELSE released[h]]
            /\ fd' = None
       ELSE /\ osCalls' = <<>>
            /\ closeArg' = None
            /\ UNCHANGED <<fd, released>>

\* the 16-byte cdb array issue_command builds from the command block
BuildCdb(command) == FromBufferCopy(CDB_SIZE, Ljust(command, CDB_SIZE, 0))

\* the SCSIPassThroughDirect header issue_command fills in: the fields whose
\* values issue_command computes itself (length, data_buffer and the sense
\* offsets come from scsi/structures.py and the buffer's address, and take
\* no part in what follows)
BuildHeader(direction, command, dataSize, timeout) ==
    [ data_in              |-> DataIn(direction),
      data_transfer_length |-> dataSize,
      cdb_length           |-> Len(command),
      cdb                  |-> BuildCdb(command).val,
      timeout_value        |-> timeout ]

\* whether self.fd is a handle DeviceIoControl can act on
ValidHandle == fd # None /\ fd[1] # INVALID_HANDLE_VALUE

\* IssueCommand testing the result before it parses the sense bytes
IssueCommandChecksFirst(direction, command, dataSize, timeout, result, err, sense) ==
    /\ ~ValidHandle => result = 0
    /\ lastOp' = "issue"
    /\ closeArg' = None
    /\ cmdArg' = Some(command)
    /\ UNCHANGED <<fd, nextHandle, released>>
    /\ osCalls' = <<"DeviceIoControl">>
    /\ osOut' = Some([result |-> result, err |-> err, sense |-> sense])
    /\ sptd' = Some(BuildHeader(direction, command, dataSize, timeout))
    /\ IF result = 0
       THEN /\ senseParsed' = None
            /\ lastErr' = "platform"
            /\ lastErrCode' = Some(err)
            /\ ret' = None
       ELSE /\ senseParsed' = Some(ParseSense(sense).arg)
            /\ lastErr' = "none"
            /\ lastErrCode' = None
            /\ ret' = Some(sense)

\* issue_command: result is DeviceIoControl's return value, err the OS
\* last-error code when it is 0, sense the header's sense region afterwards
IssueCommand(direction, command, dataSize, timeout, result, err, sense) ==
    /\ ~ValidHandle => result = 0
    /\ lastOp' = "issue"
    /\ closeArg' = None
    /\ cmdArg' = Some(command)
    /\ UNCHANGED <<fd, nextHandle, released>>
    /\ IF ~BuildCdb(command).ok
       THEN \* ValueError from from_buffer_copy: nothing is submitted
            /\ lastErr' = "value"
            /\ lastErrCode' = None
            /\ osCalls' = <<>>
            /\ osOut' = None
            /\ sptd' = None
            /\ senseParsed' = None
            /\ ret' = None
       ELSE /\ osCalls' = <<"DeviceIoControl">>
            /\ osOut' = Some([result |-> result, err |-> err, sense |-> sense])
            /\ sptd' = Some(BuildHeader(direction, command, dataSize, timeout))
            /\ senseParsed' = Some(ParseSense(sense).arg)
            /\ IF ParseSense(sense).raised
               THEN /\ lastErr' = "sense"
                    /\ lastErrCode' = None
                    /\ ret' = None
               ELSE IF result = 0
               THEN /\ lastErr' = "platform"
                    /\ lastErrCode' = Some(err)
                    /\ ret' = None
               ELSE /\ lastErr' = "none"
                    /\ lastErrCode' = None
                    /\ ret' = Some(sense)

\* the last-error codes to consider for a call that succeeds or fails
ErrorsWhen(failed) == IF failed THEN OsErrors ELSE {0}

NextSCSI ==
    \/ /\ \E osOk \in BOOLEAN : \E err \in ErrorsWhen(~osOk) : Enter(osOk, err)
       /\ UNCHANGED <<nOp, nIn, nCmds, nWire, nRet>>
    \/ /\ Exit
       /\ UNCHANGED <<nOp, nIn, nCmds, nWire, nRet>>
    \/ /\ \E rq \in Requests, command \in CommandBlocks, sense \in SenseSamples,
             result \in {0, 1} : \E err \in ErrorsWhen(result = 0) :
             IssueCommand(rq[1], command, rq[2], rq[3], result, err, sense)
       /\ UNCHANGED <<nOp, nIn, nCmds, nWire, nRet>>

----------------------------------------------------------------------------
(* Wide integers: little-endian sequences of 16-bit limbs *)

RECURSIVE Limbs(_)
\* a natural number as limbs (0 is the empty sequence)
Limbs(n) == IF n = 0 THEN <<>> ELSE <<n % 65536>> \o Limbs(n \div 65536)

RECURSIVE BitOr(_, _)
\* a | b on naturals
BitOr(a, b) ==
    IF a = 0 THEN b
    ELSE IF b = 0 THEN a
    ELSE (IF a % 2 = 1 \/ b % 2 = 1 THEN 1 ELSE 0) + 2 * BitOr(a \div 2, b \div 2)

LimbAt(w, i) == IF i <= Len(w) THEN w[i] ELSE 0

\* a | b on wide integers
WideOr(a, b) ==
    [i \in 1..(IF Len(a) > Len(b) THEN Len(a) ELSE Len(b)) |->
        BitOr(LimbAt(a, i), LimbAt(b, i))]

\* a << 16 on wide integers
WideShl16(a) == IF a = <<>> THEN <<>> ELSE <<0>> \o a

\* the value a ctypes unsigned field of nbytes bytes (2, 4 or 8) keeps
Truncate(w, nbytes) == [i \in 1..(nbytes \div 2) |-> LimbAt(w, i)]

\* the little-endian bytes of an unsigned field of nbytes bytes holding
\* the natural number v (1 byte) or the wide integer v (2, 4, 8 bytes)
FieldBytes(v, nbytes) ==
    IF nbytes = 1 THEN <<v % 256>>
    ELSE [i \in 1..nbytes |->
            IF i % 2 = 1 THEN LimbAt(v, (i + 1) \div 2) % 256
            ELSE LimbAt(v, i \div 2) \div 256]

----------------------------------------------------------------------------
(* ctypes structure layout *)

\* the alignment ctypes gives a field: its own, capped by _pack_ (0: no _pack_)
FieldAlign(f, pack) == IF pack > 0 /\ pack < f.align THEN pack ELSE f.align

AlignUp(n, a) == ((n + a - 1) \div a) * a

RECURSIVE OffsetOf(_, _, _)
\* the offset of the i-th field of a structure
OffsetOf(fields, pack, i) ==
    IF i = 1 THEN 0
    ELSE AlignUp(OffsetOf(fields, pack, i - 1) + fields[i - 1].size,
                 FieldAlign(fields[i], pack))

RECURSIVE MaxAlign(_, _, _)
MaxAlign(fields, pack, i) ==
    IF i = 0 THEN 1
    ELSE LET a == FieldAlign(fields[i], pack)
             m == MaxAlign(fields, pack, i - 1)
         IN  IF a > m THEN a ELSE m

\* ctypes.sizeof of a structure
SizeOf(fields, pack) ==
    IF fields = <<>> THEN 0
    ELSE AlignUp(OffsetOf(fields, pack, Len(fields)) + fields[Len(fields)].size,
                 MaxAlign(fields, pack, Len(fields)))

F(name, size, align) == [name |-> name, size |-> size, align |-> align]

\* NVMeAdminCommandFields with reserved_1 left out
NVMeAdminCommandFieldsNoReserved ==
    << F("opcode", 1, 1), F("flags", 1, 1),
       F("nsid", 4, 4), F("cdw2", 4, 4), F("cdw3", 4, 4),
       F("metadata", 8, 8), F("addr", 8, 8),
       F("metadata_len", 4, 4), F("data_len", 4, 4),
       F("cdw10", 4, 4), F("cdw11", 4, 4), F("cdw12", 4, 4),
       F("cdw13", 4, 4), F("cdw14", 4, 4), F("cdw15", 4, 4),
       F("timeout_ms", 4, 4), F("result", 4, 4) >>

\* NVMeAdminCommand._fields_ (with _pack_ = 1)
NVMeAdminCommandFields ==
    << F("opcode", 1, 1), F("flags", 1, 1), F("reserved_1", 2, 2),
       F("nsid", 4, 4), F("cdw2", 4, 4), F("cdw3", 4, 4),
       F("metadata", 8, 8), F("addr", 8, 8),
       F("metadata_len", 4, 4), F("data_len", 4, 4),
       F("cdw10", 4, 4), F("cdw11", 4, 4), F("cdw12", 4, 4),
       F("cdw13", 4, 4), F("cdw14", 4, 4), F("cdw15", 4, 4),
       F("timeout_ms", 4, 4), F("result", 4, 4) >>
NVMeAdminCommandPack == 1

\* NVMeIdentifyResponse._fields_ (no _pack_)
NVMeIdentifyResponseFields ==
    << F("vendor_id", 2, 2), F("ssvid", 2, 2), F("serial_number", 20, 1),
       F("model_number", 40, 1), F("firmware_revision", 8, 1),
       F("unknown", 4024, 1) >>

\* SMARTPageResponse._fields_ (with _pack_ = 1); a c_uint128 is 16 bytes
SMARTPageResponseFields ==
    << F("critical_warning", 1, 1), F("temperature", 2, 2),
       F("available_spare", 1, 1), F("available_spare_threshold", 1, 1),
       F("percent_used", 1, 1),
       F("endurance_group_critical_warning_summary", 1, 1),
       F("reserved_1", 25, 1),
       F("data_units_read", 16, 8), F("data_units_written", 16, 8),
       F("host_read_commands", 16, 8), F("host_write_commands", 16, 8),
       F("controller_busy_time", 16, 8), F("power_cycles", 16, 8),
       F("power_on_hours", 16, 8), F("unsafe_shutdowns", 16, 8),
       F("media_errors", 16, 8), F("num_err_log_entries", 16, 8),
       F("warning_temp_time", 4, 4), F("critical_temp_time", 4, 4),
       F("temperature_sensors", 16, 2),
       F("thermal_transition_counts", 8, 4),
       F("total_time_for_thermal_management", 8, 4),
       F("reserved_2", 280, 1) >>
SMARTPageResponsePack == 1

\* the index of the field called name
FieldIndex(fields, name) == CHOOSE i \in 1..Len(fields) : fields[i].name = name

\* NVMEAdminCommand(**kw): every field is zero unless given, and keeps the
\* low bits that fit it. (nvme/__init__.py spells the structure
\* NVMEAdminCommand, nvme/structures.py NVMeAdminCommand: one structure.)
NVMEAdminCommand(kw) ==
    [i \in 1..Len(NVMeAdminCommandFields) |->
        LET f == NVMeAdminCommandFields[i]
            v == IF f.name \in DOMAIN kw THEN kw[f.name] ELSE <<>>
        IN  IF f.size = 1 THEN LimbAt(v, 1) % 256 ELSE Truncate(v, f.size)]

\* the value of the field called name in a command
Get(cmd, name) == cmd[FieldIndex(NVMeAdminCommandFields, name)]

\* the offsets and the size ctypes computes for NVMeAdminCommand
NVMeAdminCommandOffsets ==
    [i \in 1..Len(NVMeAdminCommandFields) |->
        OffsetOf(NVMeAdminCommandFields, NVMeAdminCommandPack, i)]
NVMeAdminCommandSize == SizeOf(NVMeAdminCommandFields, NVMeAdminCommandPack)

RECURSIVE ImageFrom(_, _, _)
\* the bytes of the structure's memory from field i on, given that `at`
\* bytes precede them: gap bytes are zero, fields are little-endian
ImageFrom(cmd, i, at) ==
    IF i > Len(NVMeAdminCommandFields)
    THEN Fill(0, NVMeAdminCommandSize - at)
    ELSE LET f   == NVMeAdminCommandFields[i]
             off == NVMeAdminCommandOffsets[i]
         IN  Fill(0, off - at)
                 \o FieldBytes(cmd[i], f.size)
                 \o ImageFrom(cmd, i + 1, off + f.size)

\* the memory image of an NVMeAdminCommand, which is what the OS is handed
Image(cmd) == ImageFrom(cmd, 1, 0)

----------------------------------------------------------------------------
(* NVMEDevice: pure parts *)

\* NVMeAdminCommands
GET_LOG_PAGE == 2
IDENTIFY == 6

\* NVMeCQEStatusField with the bit fields filled from the most significant
\* bit down
NVMeCQEStatusFieldMsbFirst(blob) ==
    IF Len(blob) < 2 THEN [ok |-> FALSE, val |-> <<>>]
    ELSE [ok |-> TRUE,
          val |-> [ status_code      |-> blob[1],
                    status_code_type |-> blob[2] \div 32,
                    cmd_retry_delay  |-> (blob[2] \div 8) % 4,
                    more             |-> (blob[2] \div 4) % 2,
                    do_not_retry     |-> (blob[2] \div 2) % 2 ]]

\* NVMeCQEStatusField.from_buffer_copy(blob): status_code is the first
\* byte; the second holds status_code_type:3, cmd_retry_delay:2, more:1,
\* do_not_retry:1 from its least significant bit up
NVMeCQEStatusField(blob) ==
    IF Len(blob) < 2 THEN [ok |-> FALSE, val |-> <<>>]
    ELSE [ok |-> TRUE,
          val |-> [ status_code      |-> blob[1],
                    status_code_type |-> blob[2] % 8,
                    cmd_retry_delay  |-> (blob[2] \div 8) % 4,
                    more             |-> (blob[2] \div 32) % 2,
                    do_not_retry     |-> (blob[2] \div 64) % 2 ]]

\* parse_status_filed(status_blob): the outcome of the call
ParseStatusFiledResult(blob) ==
    LET sf == NVMeCQEStatusField(blob)
    IN  IF ~sf.ok THEN [tag |-> "err", val |-> [kind |-> "ValueError"]]
        ELSE IF sf.val.status_code # 0 \/ sf.val.status_code_type # 0
        THEN [tag |-> "err",
              val |-> [ kind |-> "NVMeStatusFieldError",
                        code |-> sf.val.status_code,
                        type |-> sf.val.status_code_type,
                        status_filed |-> sf.val ]]
        ELSE [tag |-> "ok", val |-> sf.val]

\* the bytes bytes.strip(b" \x00") removes
StripChars == {32, 0}

RECURSIVE LStrip(_, _)
LStrip(s, chars) ==
    IF s # <<>> /\ Head(s) \in chars THEN LStrip(Tail(s), chars) ELSE s

RECURSIVE RStrip(_, _)
RStrip(s, chars) ==
    IF s # <<>> /\ s[Len(s)] \in chars
    THEN RStrip(SubSeq(s, 1, Len(s) - 1), chars) ELSE s

\* Strip removing from the right end only (bytes.rstrip)
StripRightOnly(s, chars) == RStrip(s, chars)

\* bytes.strip(chars): removes the bytes of chars from both ends
Strip(s, chars) == RStrip(LStrip(s, chars), chars)

\* UTF-8, as bytes.decode() reads it (strict): the length of the sequence a
\* lead byte starts, 0 for a byte that can start none
Utf8Len(b) ==
    IF b < 128 THEN 1
    ELSE IF b >= 194 /\ b <= 223 THEN 2
    ELSE IF b >= 224 /\ b <= 239 THEN 3
    ELSE IF b >= 240 /\ b <= 244 THEN 4
    ELSE 0

Utf8Cont(b) == b >= 128 /\ b <= 191

\* whether the n bytes s[1..n] are one well-formed sequence (no overlong
\* forms, no surrogates, nothing above U+10FFFF)
Utf8WellFormed(s, n) ==
    /\ n > 0
    /\ Len(s) >= n
    /\ \A i \in 2..n : Utf8Cont(s[i])
    /\ (s[1] = 224) => s[2] >= 160
    /\ (s[1] = 237) => s[2] <= 159
    /\ (s[1] = 240) => s[2] >= 144
    /\ (s[1] = 244) => s[2] <= 143

Utf8CodePoint(s, n) ==
    IF n = 1 THEN s[1]
    ELSE IF n = 2 THEN (s[1] % 32) * 64 + (s[2] % 64)
    ELSE IF n = 3 THEN (s[1] % 16) * 4096 + (s[2] % 64) * 64 + (s[3] % 64)
    ELSE (s[1] % 8) * 262144 + (s[2] % 64) * 4096 + (s[3] % 64) * 64 + (s[4] % 64)

RECURSIVE Decode(_)
\* bytes.decode(): the text as a sequence of code points, or
\* UnicodeDecodeError
Decode(s) ==
    IF s = <<>> THEN [tag |-> "ok", val |-> <<>>]
    ELSE LET n == Utf8Len(Head(s))
         IN  IF ~Utf8WellFormed(s, n)
             THEN [tag |-> "err", val |-> [kind |-> "UnicodeDecodeError"]]
             ELSE LET rest == Decode(SubSeq(s, n + 1, Len(s)))
                  IN  IF rest.tag = "err" THEN rest
                      ELSE [tag |-> "ok",
                            val |-> <<Utf8CodePoint(s, n)>> \o rest.val]

\* bytearray(field).strip(b" \x00").decode()
TextOf(field) == Decode(Strip(field, StripChars))

\* c_ushort read from two little-endian bytes
UShort(lo, hi) == lo + 256 * hi

\* IntOfHundredths rounding down instead (math.floor)
FloorOfHundredths(h) == h \div 100

\* int(x): x given in hundredths, truncated toward zero
IntOfHundredths(h) == IF h >= 0 THEN h \div 100 ELSE -((-h) \div 100)

\* int(temperature - 273.15). The float difference of an integer below
\* 65536 and 273.15 is within 1e-10 of k - 273.15, whose fraction is .85 or
\* .15, so it truncates as the exact difference does.
TemperatureOf(kelvin) == IntOfHundredths(100 * kelvin - 27315)

\* ReadLogPageCdw10 without the "- 1"
ReadLogPageCdw10NoMinusOne(log_page_id, size) ==
    WideOr(Limbs(log_page_id), WideShl16(Limbs(size \div 4)))

\* cdw10 of read_log_page, before the c_uint32 field keeps its low 32 bits
ReadLogPageCdw10(log_page_id, size) ==
    WideOr(Limbs(log_page_id), WideShl16(Limbs((size \div 4) - 1)))

\* the command identify() builds
IdentifyCommand(addr) ==
    NVMEAdminCommand([ opcode   |-> Limbs(IDENTIFY),
                       addr     |-> addr,
                       data_len |-> Limbs(SizeOf(NVMeIdentifyResponseFields, 0)),
                       cdw10    |-> Limbs(1) ])

\* the command read_log_page() builds
ReadLogPageCommand(log_page_id, size, addr) ==
    NVMEAdminCommand([ opcode   |-> Limbs(GET_LOG_PAGE),
                       addr     |-> addr,
                       data_len |-> Limbs(size),
                       nsid     |-> <<65535, 65535>>,
                       cdw10    |-> ReadLogPageCdw10(log_page_id, size) ])

\* the command smart() builds: read_log_page(0x02, SMARTPageResponse())
SmartCommand(addr) ==
    ReadLogPageCommand(2, SizeOf(SMARTPageResponseFields, SMARTPageResponsePack),
                       addr)

----------------------------------------------------------------------------
(* NVMEDevice: inputs *)

\* ctypes.addressof(data): 64-bit addresses, as limbs
AddrSamples == { <<4096, 21845, 32766, 0>>, <<65520, 65535, 65535, 65535>> }

\* status blobs: every pair of bytes, alone or followed by one more byte,
\* and the blobs too short to hold a status field
StatusBlobs(last) ==
    { <<b0, b1>> : b0 \in 0..255, b1 \in 0..255 }
        \cup { <<b0, b1, last>> : b0 \in 0..255, b1 \in 0..255 }
        \cup { <<b0>> : b0 \in 0..255 } \cup { <<>> }

\* log page ids and destination sizes, on both sides of the 16-bit limits
LogPageIds == {0, 1, 2, 255, 65535, 65536, 65538, 131071}
DestSizes == {4, 6, 8, 512, 4096, 262144, 262148}

\* bytes an identify text field is made of: NUL, space, "A", and the two
\* bytes of U+00E9 (each invalid on its own)
TextBytes == {0, 32, 65, 195, 169}

SeqsUpTo(S, n) == UNION { [1..k -> S] : k \in 0..n }

\* "ABC123"
ABC123 == <<65, 66, 67, 49, 50, 51>>

\* the padding byte at position i under padding style p
PadByte(p, i) == IF p = 1 THEN 32 ELSE IF p = 2 THEN 0 ELSE IF i % 2 = 0 THEN 32 ELSE 0

\* the contents the device can leave in a text field of the given width:
\* leading padding, arbitrary bytes, then padding to the end
TextFields(width) ==
    { [i \in 1..width |->
          IF i <= Len(lead \o core) THEN (lead \o core)[i] ELSE PadByte(p, i)] :
      lead \in SeqsUpTo(StripChars, MaxLead),
      core \in SeqsUpTo(TextBytes, MaxCore) \cup {ABC123},
      p \in 1..3 }

WidthOf(name) ==
    NVMeIdentifyResponseFields[FieldIndex(NVMeIdentifyResponseFields, name)].size

----------------------------------------------------------------------------
(* NVMEDevice: operations *)

\* a call with its inputs: the operation, the address of its data buffer,
\* the bytes involved (a status blob, or what the device leaves in the
\* field the call reads), and read_log_page's arguments
Call(op, addr, bytes, log_page_id, size) ==
    [op |-> op, addr |-> addr, bytes |-> bytes,
     log_page_id |-> log_page_id, size |-> size]

NoCall == Call("none", <<>>, <<>>, 0, 0)

\* the calls of operation op a caller can make on a device
Calls(op) ==
    IF op = "parse_status_filed"
    THEN { Call(op, <<>>, blob, 0, 0) : blob \in StatusBlobs(255) }
    ELSE IF op = "serial"
    THEN { Call(op, addr, field, 0, 0) :
             addr \in AddrSamples, field \in TextFields(WidthOf("serial_number")) }
    ELSE IF op = "model"
    THEN { Call(op, addr, field, 0, 0) :
             addr \in AddrSamples, field \in TextFields(WidthOf("model_number")) }
    ELSE IF op = "read_log_page"
    THEN { Call(op, addr, <<>>, log_page_id, size) :
             addr \in AddrSamples, log_page_id \in LogPageIds, size \in DestSizes }
    ELSE IF op = "temperature"
    THEN { Call(op, addr, <<lo, hi>>, 0, 0) :
             addr \in AddrSamples, lo \in 0..255, hi \in 0..255 }
    ELSE { Call(op, addr, <<>>, 0, 0) : addr \in AddrSamples }

\* no call is pending or made
IdleNVMe ==
    /\ nOp = "idle"
    /\ nIn = NoCall
    /\ nCmds = <<>>
    /\ nWire = <<>>
    /\ nRet = [tag |-> "ok", val |-> <<>>]

\* a freshly constructed device and the call about to be made on it, one
\* of the operations ops
InitNVMe(ops) ==
    /\ nOp = "idle"
    /\ \E op \in ops : nIn \in Calls(op)
    /\ nCmds = <<>>
    /\ nWire = <<>>
    /\ nRet = [tag |-> "ok", val |-> <<>>]

\* issue_admin_command(command), abstract in NVMEDevice: the command's
\* memory is what reaches the OS
Issued(cmd) ==
    /\ nCmds' = <<cmd>>
    /\ nWire' = Image(cmd)

Pending(op) == nOp = "idle" /\ nIn.op = op

\* parse_status_filed(status_blob)
ParseStatusFiled ==
    /\ Pending("parse_status_filed")
    /\ nOp' = "parse_status_filed"
    /\ nCmds' = <<>>
    /\ nWire' = <<>>
    /\ nRet' = ParseStatusFiledResult(nIn.bytes)
    /\ UNCHANGED nIn

\* identify()
Identify ==
    /\ Pending("identify")
    /\ nOp' = "identify"
    /\ Issued(IdentifyCommand(nIn.addr))
    /\ nRet' = [tag |-> "ok", val |-> <<>>]
    /\ UNCHANGED nIn

\* the serial property; nIn.bytes is what the device left in serial_number
Serial ==
    /\ Pending("serial")
    /\ nOp' = "serial"
    /\ Issued(IdentifyCommand(nIn.addr))
    /\ nRet' = TextOf(nIn.bytes)
    /\ UNCHANGED nIn

\* the model property; nIn.bytes is what the device left in model_number
Model ==
    /\ Pending("model")
    /\ nOp' = "model"
    /\ Issued(IdentifyCommand(nIn.addr))
    /\ nRet' = TextOf(nIn.bytes)
    /\ UNCHANGED nIn

\* read_log_page(log_page_id, data), with size = ctypes.sizeof(data)
ReadLogPage ==
    /\ Pending("read_log_page")
    /\ nOp' = "read_log_page"
    /\ Issued(ReadLogPageCommand(nIn.log_page_id, nIn.size, nIn.addr))
    /\ nRet' = [tag |-> "ok", val |-> <<>>]
    /\ UNCHANGED nIn

\* smart()
Smart ==
    /\ Pending("smart")
    /\ nOp' = "smart"
    /\ Issued(SmartCommand(nIn.addr))
    /\ nRet' = [tag |-> "ok", val |-> <<>>]
    /\ UNCHANGED nIn

\* the temperature property; nIn.bytes are the two bytes the device left in
\* the SMART page's temperature field
Temperature ==
    /\ Pending("temperature")
    /\ nOp' = "temperature"
    /\ Issued(SmartCommand(nIn.addr))
    /\ nRet' = [tag |-> "ok",
                val |-> TemperatureOf(UShort(nIn.bytes[1], nIn.bytes[2]))]
    /\ UNCHANGED nIn

----------------------------------------------------------------------------
(* Specifications *)

\* one WindowsSCSIDevice instance, from construction (no NVMe call is made)
InitDevice == InitSCSI /\ IdleNVMe
SpecSCSI == InitDevice /\ [][NextSCSI]_vars

\* one call of parse_status_filed
NextStatus == ParseStatusFiled /\ UNCHANGED scsiVars
InitStatus == InitSCSI /\ InitNVMe({"parse_status_filed"})
SpecStatus == InitStatus /\ [][NextStatus]_vars

\* one call of a command-issuing operation on an NVMEDevice instance
NextCmd ==
    \/ Identify /\ UNCHANGED scsiVars
    \/ ReadLogPage /\ UNCHANGED scsiVars
    \/ Smart /\ UNCHANGED scsiVars
InitCmd == InitSCSI /\ InitNVMe({"identify", "read_log_page", "smart"})
SpecCmd == InitCmd /\ [][NextCmd]_vars

\* one read of the serial or model property
NextText ==
    \/ Serial /\ UNCHANGED scsiVars
    \/ Model /\ UNCHANGED scsiVars
InitText == InitSCSI /\ InitNVMe({"serial", "model"})
SpecText == InitText /\ [][NextText]_vars

\* one read of the temperature property
NextTemp == Temperature /\ UNCHANGED scsiVars
InitTemp == InitSCSI /\ InitNVMe({"temperature"})
SpecTemp == InitTemp /\ [][NextTemp]_vars

----------------------------------------------------------------------------
(* Claims about WindowsSCSIDevice, checked under SpecSCSI *)

\* whether h is a handle CreateFileW handed out
IsHandle(h) == h # None /\ h[1] # INVALID_HANDLE_VALUE

TimesReleased(rel, h) == IF h \in DOMAIN rel THEN rel[h] ELSE 0

C1_Step ==
    \* open() while self.fd is set: a state error, the handle unchanged, no OS call
    /\ (lastOp' = "open" /\ fd # None) =>
          /\ lastErr' = "state"
          /\ fd' = fd
          /\ osCalls' = <<>>
    \* open() on a closed instance (also after a close()) is not refused: it
    \* calls CreateFileW, and when that succeeds it holds a fresh handle
    /\ (lastOp' = "open" /\ fd = None) =>
          /\ lastErr' \in {"none", "platform"}
          /\ osCalls' = <<"CreateFileW">>
          /\ lastErr' = "none" =>
                IsHandle(fd') /\ TimesReleased(released', fd'[1]) = 0
    \* close() on a closed instance: no OS call, nothing changes
    /\ (lastOp' = "close" /\ fd = None) =>
          /\ osCalls' = <<>>
          /\ fd' = None
          /\ released' = released
    \* close() on an open instance releases the held handle and clears it
    /\ (lastOp' = "close" /\ IsHandle(fd)) =>
          /\ osCalls' = <<"CloseHandle">>
          /\ closeArg' = fd
          /\ fd' = None
          /\ TimesReleased(released', fd[1]) = 1
    \* no handle is released twice, and the held one has not been released
    /\ \A h \in DOMAIN released' : released'[h] <= 1
    /\ IsHandle(fd') => TimesReleased(released', fd'[1]) = 0

\* C1: open() on an instance already open fails with a state error and
\* leaves the handle unchanged; open() after a close() is accepted; close()
\* on a closed instance is a no-op without CloseHandle; every handle
\* acquired is released exactly once, by the close() that follows.
C1_OpenCloseDiscipline == [][C1_Step]_vars

\* two open/close cycles, then a second close(): both handles released
\* once, and the last close() made no OS call
C1_Witness ==
    /\ lastOp = "close"
    /\ osCalls = <<>>
    /\ fd = None
    /\ DOMAIN released = {1, 2}
    /\ released[1] = 1 /\ released[2] = 1

\* C3: issue_command rejects every command block longer than 16 bytes,
\* submitting nothing to the OS (stated here of an open device).
C3_LongCommandRejected ==
    (lastOp = "issue" /\ IsHandle(fd) /\ Len(cmdArg[1]) > 16) =>
        /\ lastErr \notin {"none", "platform"}
        /\ osCalls = <<>>
        /\ sptd = None

\* C4: for a command block of n <= 16 bytes the header's CDB is 16 bytes:
\* the command block, then zeros.
C4_CommandPadded ==
    (lastOp = "issue" /\ Len(cmdArg[1]) <= 16) =>
        /\ sptd # None
        /\ Len(sptd[1].cdb) = 16
        /\ \A i \in 1..16 :
              sptd[1].cdb[i] = IF i <= Len(cmdArg[1]) THEN cmdArg[1][i] ELSE 0

\* the 6-byte INQUIRY command was issued and bytes 6..15 of the CDB are zero
C4_Witness ==
    /\ lastOp = "issue"
    /\ cmdArg = Some(<<18, 0, 0, 0, 96, 0>>)
    /\ sptd # None
    /\ sptd[1].cdb = <<18, 0, 0, 0, 96, 0, 0, 0, 0, 0, 0, 0, 0, 0, 0, 0>>

C10_FailedOpenHoldsNothing ==
    (lastOp = "open" /\ lastErr = "platform") => fd = None

----------------------------------------------------------------------------
(* Claims about NVMEDevice *)

\* C2 (SpecStatus): for a blob of at least 2 bytes b0, b1, the decoded
\* field has status_code = b0 and splits b1, from its least significant
\* bit, into status_code_type (3 bits), cmd_retry_delay (2), more (1),
\* do_not_retry (1) and one unused bit; the call fails with
\* NVMeStatusFieldError(status_code, status_code_type, field) exactly when
\* status_code or status_code_type is nonzero, and returns the field
\* otherwise; [0, 0] succeeds and [2, 1] fails with (2, 1).
C2_StatusField ==
    (nOp = "parse_status_filed" /\ Len(nIn.bytes) >= 2) =>
        LET b0 == nIn.bytes[1]
            b1 == nIn.bytes[2]
            sf == IF nRet.tag = "ok" THEN nRet.val ELSE nRet.val.status_filed
        IN  /\ nRet.tag = "err" => nRet.val.kind = "NVMeStatusFieldError"
            /\ sf.status_code = b0
            /\ sf.status_code_type \in 0..7
            /\ sf.cmd_retry_delay \in 0..3
            /\ sf.more \in 0..1
            /\ sf.do_not_retry \in 0..1
            /\ b1 - 128 * (IF b1 >= 128 THEN 1 ELSE 0)
                 = sf.status_code_type + 8 * sf.cmd_retry_delay
                     + 32 * sf.more + 64 * sf.do_not_retry
            /\ nRet.tag = "err" <=> (b0 # 0 \/ sf.status_code_type # 0)
            /\ nRet.tag = "err" =>
                  nRet.val.code = b0 /\ nRet.val.type = sf.status_code_type
            /\ (b0 = 0 /\ b1 = 0) =>
                  /\ nRet.tag = "ok"
                  /\ nRet.val.status_code = 0
                  /\ nRet.val.status_code_type = 0
                  /\ nRet.val.do_not_retry = 0
            /\ (b0 = 2 /\ b1 % 8 = 1) =>
                  nRet.tag = "err" /\ nRet.val.code = 2 /\ nRet.val.type = 1

\* the blob [2, 0x41] (status_code 2, type 1, do_not_retry set) was parsed
\* and refused with (2, 1)
C2_Witness ==
    /\ nOp = "parse_status_filed"
    /\ nIn.bytes = <<2, 65>>
    /\ nRet.tag = "err"
    /\ nRet.val.code = 2
    /\ nRet.val.type = 1
    /\ nRet.val.status_filed.do_not_retry = 1

\* the 32-bit field value with the given 16-bit halves
Dword(low16, high16) == <<low16, high16>>

\* what C6 says of a read_log_page(log_page_id, data) call
C6_Says(log_page_id, size) ==
    /\ Len(nCmds) = 1
    /\ Get(nCmds[1], "opcode") = 2
    /\ Get(nCmds[1], "nsid") = Dword(65535, 65535)
    /\ Get(nCmds[1], "cdw10") = Dword(log_page_id, (size \div 4) - 1)

\* C6 as claimed (SpecCmd): for every log_page_id and every destination
\* whose size is a positive multiple of 4, read_log_page issues one
\* command with opcode 0x02, nsid 0xFFFFFFFF and cdw10 = log_page_id in the
\* low 16 bits, size/4 - 1 in the high 16 bits.
C6_AsClaimed ==
    (nOp = "read_log_page" /\ nIn.size > 0 /\ nIn.size % 4 = 0) =>
        C6_Says(nIn.log_page_id, nIn.size)

\* C6 amended (SpecCmd): the same for every log_page_id below 2^16 and
\* every size that is a positive multiple of 4 up to 4 * 2^16; smart()
\* issues that command with cdw10 = 0x007F0002.
C6_Cdw10 ==
    /\ (/\ nOp = "read_log_page"
        /\ nIn.size > 0 /\ nIn.size % 4 = 0 /\ nIn.size <= 4 * 65536
        /\ nIn.log_page_id < 65536) =>
            C6_Says(nIn.log_page_id, nIn.size)
    /\ nOp = "smart" =>
            /\ C6_Says(2, 512)
            /\ Get(nCmds[1], "cdw10") = Dword(2, 127)

\* the largest page id and the largest size C6 covers were used
C6_Witness ==
    /\ nOp = "read_log_page"
    /\ nIn.log_page_id = 65535
    /\ nIn.size = 262144
    /\ Get(nCmds[1], "cdw10") = Dword(65535, 65535)

\* what a field of s bytes at offset off holds in the wire image: the
\* little-endian bytes of v (16-bit limbs, or a number for one byte)
WireHolds(off, s, v) ==
    \A k \in 1..s :
        nWire[off + k] =
            IF s = 1 THEN v
            ELSE IF k % 2 = 1 THEN v[(k + 1) \div 2] % 256
            ELSE v[k \div 2] \div 256

\* the field order and sizes C8 gives, and the offsets they add up to
C8_Names ==
    << "opcode", "flags", "reserved_1", "nsid", "cdw2", "cdw3", "metadata",
       "addr", "metadata_len", "data_len", "cdw10", "cdw11", "cdw12", "cdw13",
       "cdw14", "cdw15", "timeout_ms", "result" >>
C8_Sizes == <<1, 1, 2, 4, 4, 4, 8, 8, 4, 4, 4, 4, 4, 4, 4, 4, 4, 4>>
C8_Offsets == <<0, 1, 2, 4, 8, 12, 16, 24, 32, 36, 40, 44, 48, 52, 56, 60, 64, 68>>

\* every field of the issued command sits in the wire image at the sum of
\* the sizes before it, in the order C8 gives
C8_FieldsInOrder ==
    /\ Len(nCmds[1]) = 18
    /\ \A i \in 1..18 :
          /\ C8_Offsets[i] = IF i = 1 THEN 0 ELSE C8_Offsets[i - 1] + C8_Sizes[i - 1]
          /\ WireHolds(C8_Offsets[i], C8_Sizes[i], Get(nCmds[1], C8_Names[i]))

\* C8 as claimed (SpecCmd): the encoded admin command is exactly 64 bytes,
\* its fields in the stated order, each at the sum of the sizes before it.
C8_AsClaimed ==
    nCmds # <<>> => (Len(nWire) = 64 /\ C8_FieldsInOrder)

\* C8 amended (SpecCmd): the encoded admin command is exactly 72 bytes (the
\* sum of the stated field sizes), its fields in the stated order, each at
\* the sum of the sizes before it.
C8_Layout ==
    nCmds # <<>> => (Len(nWire) = 72 /\ C8_FieldsInOrder)

\* a GET_LOG_PAGE command reached the wire: opcode first, four 0xFF bytes
\* of nsid at offset 4, cdw10 at offset 40
C8_Witness ==
    /\ nOp = "read_log_page"
    /\ nIn.log_page_id = 2 /\ nIn.size = 512
    /\ Len(nWire) = 72
    /\ nWire[1] = 2
    /\ SubSeq(nWire, 5, 8) = <<255, 255, 255, 255>>
    /\ SubSeq(nWire, 41, 44) = <<2, 0, 127, 0>>

\* C9 (SpecTemp): for every 16-bit Kelvin value K the temperature property
\* is K - 273.15 truncated toward zero: the integer r of the same sign as
\* 100 K - 27315 (or zero) with |100 r| <= |100 K - 27315| < |100 r| + 100;
\* K = 300 gives 26.
C9_Temperature ==
    nOp = "temperature" =>
        LET k == nIn.bytes[1] + 256 * nIn.bytes[2]
            h == 100 * k - 27315
            r == nRet.val
        IN  /\ nRet.tag = "ok"
            /\ h >= 0 => (r >= 0 /\ 100 * r <= h /\ h < 100 * r + 100)
            /\ h < 0 => (r <= 0 /\ 100 * r >= h /\ h > 100 * r - 100)
            /\ k = 300 => r = 26

\* K = 273 (below 273.15) was read and gave 0, not -1
C9_Witness ==
    /\ nOp = "temperature"
    /\ nIn.bytes = <<17, 1>>
    /\ nRet.val = 0

\* s with the bytes of chars removed from its right end only
C7_RightTrimmed(s) ==
    LET keep == { j \in 0..Len(s) : \A k \in (j + 1)..Len(s) : s[k] \in StripChars }
        j == CHOOSE j \in keep : \A x \in keep : j <= x
    IN  SubSeq(s, 1, j)

\* s with the bytes of chars removed from both of its ends
C7_Trimmed(s) ==
    LET t == C7_RightTrimmed(s)
        drop == { i \in 0..Len(t) : \A k \in 1..i : t[k] \in StripChars }
        i == CHOOSE i \in drop : \A x \in drop : i >= x
    IN  SubSeq(t, i + 1, Len(t))

\* C7 as claimed (SpecText): serial and model expose the field with only
\* its trailing space and null bytes removed, every other byte (leading
\* spaces and nulls too) preserved.
C7_AsClaimed ==
    nOp \in {"serial", "model"} =>
        nRet = Decode(C7_RightTrimmed(nIn.bytes))

\* C7 amended (SpecText): serial and model expose the field with its
\* leading and its trailing space and null bytes removed and every byte
\* between them preserved, decoded as UTF-8 (UnicodeDecodeError when what
\* is left is not UTF-8); "ABC123" followed by padding gives "ABC123".
C7_Text ==
    nOp \in {"serial", "model"} =>
        /\ nRet = Decode(C7_Trimmed(nIn.bytes))
        /\ (\A k \in 1..Len(C7_Trimmed(nIn.bytes)) : C7_Trimmed(nIn.bytes)[k] < 128)
              => nRet = [tag |-> "ok", val |-> C7_Trimmed(nIn.bytes)]
        /\ (/\ SubSeq(nIn.bytes, 1, 6) = ABC123
            /\ \A k \in 7..Len(nIn.bytes) : nIn.bytes[k] \in StripChars)
              => nRet = [tag |-> "ok", val |-> ABC123]

\* a serial field with a leading space and NUL before "A" was read as "A"
C7_Witness ==
    /\ nOp = "serial"
    /\ SubSeq(nIn.bytes, 1, 3) = <<32, 0, 65>>
    /\ nRet = [tag |-> "ok", val |-> <<65>>]

=============================================================================
